---- MODULE Spec2Model ----
(***************************************************************************)
(* Model of crispdm_data_understanding_class/class_data_understanding.py:  *)
(* the filename sanitizer clean_filename, the column-name normalization    *)
(* and the sequential pipeline of main().                                  *)
(*                                                                         *)
(* A Python str is a sequence of one-character strings.  A Python value    *)
(* that may be an int or a str (sheet selector, mapping key, column label) *)
(* is a record [t, n, s]: t is "int" or "str" ("none" for None), n the     *)
(* integer, s the characters.                                              *)
(***************************************************************************)
EXTENDS Integers, Sequences, FiniteSets, TLC

\* ------------------------------------------------------------ bounds
MaxSheets == 2
MaxCols == 2
MaxArgLen == 1
MaxEdgeLen == 1
MaxShortRun == 3
MaxNear == 2
MaxLabelLen == 3
MaxIntLabel == 12

\* ------------------------------------------------------------ values
NoneVal == [t |-> "none", n |-> 0, s |-> <<>>]
IntVal(k) == [t |-> "int", n |-> k, s |-> <<>>]
StrVal(str) == [t |-> "str", n |-> 0, s |-> str]

SeqsUpTo(S, k) == UNION {[1..j -> S] : j \in 0..k}

Digits == <<"0", "1", "2", "3", "4", "5", "6", "7", "8", "9">>
DigitSet == {Digits[i] : i \in 1..Len(Digits)}
DigitValue(c) == (CHOOSE i \in 1..Len(Digits) : Digits[i] = c) - 1

\* The characters str.strip() removes that the model's alphabets contain.
Whitespace == {" ", "\t", "\n"}

\* s.strip(chars): s without its longest prefix and suffix made of chars.
StripSet(s, chars) ==
    LET keep == {i \in 1..Len(s) : s[i] \notin chars}
        lo == CHOOSE i \in keep : \A j \in keep : i <= j
        hi == CHOOSE i \in keep : \A j \in keep : j <= i
    IN  IF keep = {} THEN <<>> ELSE SubSeq(s, lo, hi)

\* str.strip(): with no argument it removes whitespace at both ends.
StripWs(s) == StripSet(s, Whitespace)

\* str.replace(old, new) for one-character old and new.
ReplaceChar(s, old, new) == [i \in 1..Len(s) |-> IF s[i] = old THEN new ELSE s[i]]

\* str(n) of a non-negative int: its decimal digits, no leading zero.
RECURSIVE NatToStr(_)
NatToStr(k) ==
    IF k < 10 THEN <<Digits[k + 1]>>
    ELSE Append(NatToStr(k \div 10), Digits[(k % 10) + 1])

IntToStr(k) == IF k < 0 THEN <<"-">> \o NatToStr(0 - k) ELSE NatToStr(k)

\* str(v): what an f-string {v} shows.
Str(v) == IF v.t = "int" THEN IntToStr(v.n) ELSE IF v.t = "str" THEN v.s ELSE <<"None">>

\* repr(v): what an f-string shows for v as an element of a list.
Repr(v) == IF v.t = "str" THEN <<"'">> \o v.s \o <<"'">> ELSE Str(v)

\* int(s): optional surrounding whitespace, optional sign, decimal digits with
\* single underscores allowed between digits.  IntBody is what is left after
\* the whitespace and the sign.
IntBody(s) ==
    LET t == StripWs(s)
    IN  IF t # <<>> /\ t[1] \in {"+", "-"} THEN Tail(t) ELSE t

IntParses(s) ==
    LET u == IntBody(s)
    IN  /\ u # <<>>
        /\ \A i \in 1..Len(u) : u[i] \in DigitSet \cup {"_"}
        /\ u[1] # "_"
        /\ u[Len(u)] # "_"
        /\ \A i \in 1..(Len(u) - 1) : ~(u[i] = "_" /\ u[i + 1] = "_")

RECURSIVE DigitsValue(_)
DigitsValue(u) ==
    IF u = <<>> THEN 0
    ELSE IF u[Len(u)] = "_" THEN DigitsValue(SubSeq(u, 1, Len(u) - 1))
    ELSE 10 * DigitsValue(SubSeq(u, 1, Len(u) - 1)) + DigitValue(u[Len(u)])

IntOf(s) ==
    LET t == StripWs(s)
        v == DigitsValue(IntBody(s))
    IN  IF t[1] = "-" THEN 0 - v ELSE v

\* ------------------------------------------------------------ clean_filename
Forbidden == {"/", "<", ">", ":", "\"", "|", "?", "*"}
CleanMaxLen == 100
CleanKeepLen == 97
Ellipsis == <<".", ".", ".">>

\* re.sub(r'[/<>:"|?*]', '_', filename)
SubForbidden(s) == [i \in 1..Len(s) |-> IF s[i] \in Forbidden THEN "_" ELSE s[i]]

LimitLengthKeepAll(s) ==
    IF Len(s) > CleanMaxLen THEN SubSeq(s, 1, CleanMaxLen) \o Ellipsis ELSE s

\* if len(clean) > 100: clean = clean[:97] + "..."
LimitLength(s) ==
    IF Len(s) > CleanMaxLen THEN SubSeq(s, 1, CleanKeepLen) \o Ellipsis ELSE s

\* re.sub(r'_+', '_', clean): every run of underscores becomes one underscore.
\* Computed by halves: the two collapsed halves are joined, and where a run
\* crosses the middle its second underscore is dropped.
RECURSIVE CollapseUnderscores(_)
CollapseUnderscores(s) ==
    IF Len(s) <= 1 THEN s
    ELSE LET h == Len(s) \div 2
             l == CollapseUnderscores(SubSeq(s, 1, h))
             r == CollapseUnderscores(SubSeq(s, h + 1, Len(s)))
         IN  IF l[Len(l)] = "_" /\ r[1] = "_" THEN l \o Tail(r) ELSE l \o r

\* clean.strip('_')
StripUnderscores(s) == StripSet(s, {"_"})

clean_filename(filename) ==
    StripUnderscores(CollapseUnderscores(LimitLength(SubForbidden(filename))))

\* ------------------------------------------------------------ column names
NormalizeNameSwapped(c) == ReplaceChar(StripWs(Str(c)), "_", " ")

\* str(c).strip().replace(" ", "_")
NormalizeName(c) == ReplaceChar(StripWs(Str(c)), " ", "_")

\* ------------------------------------------------------------ tables
\* A table is the sequence of its columns; a column is its label and whether
\* its dtype is numeric (what select_dtypes tests).  Cell values play no part
\* in main().
Column(label, numeric) == [label |-> label, numeric |-> numeric]

ColumnUniverse ==
    << Column(StrVal(<<"a", "/", "b">>), FALSE),
       Column(StrVal(<<" ", "n", " ", "1">>), TRUE),
       Column(StrVal(<<"a", ":", "b">>), FALSE) >>

\* The columns of ColumnUniverse at the positions in mask, in order.
PickColumns(mask) ==
    LET f[i \in 0..Len(ColumnUniverse)] ==
            IF i = 0 THEN <<>>
            ELSE IF i \in mask THEN Append(f[i - 1], ColumnUniverse[i])
            ELSE f[i - 1]
    IN  f[Len(ColumnUniverse)]

Tables ==
    {PickColumns(mask) : mask \in {m \in SUBSET (1..Len(ColumnUniverse)) : Cardinality(m) <= MaxCols}}

Keys == {IntVal(1), StrVal(<<"1">>), StrVal(<<"S">>)}

\* A dict of sheets in insertion order: items with pairwise different keys.
SheetMaps ==
    UNION {{it \in [1..k -> [key : Keys, table : Tables]] :
              \A i, j \in 1..k : it[i].key = it[j].key => i = j} : k \in 0..MaxSheets}

TableResult(T) == [kind |-> "table", table |-> T, items |-> <<>>]
DictResult(it) == [kind |-> "dict", table |-> <<>>, items |-> it]
NoResult == [kind |-> "none", table |-> <<>>, items |-> <<>>]

\* What read_any may return: one table or a mapping of sheets.
LoaderResults == {TableResult(T) : T \in Tables} \cup {DictResult(it) : it \in SheetMaps}

ArgChars == {"0", "1", "S"}
\* args.sheet: None (the default) or the string given after --sheet.
ArgSheets == {NoneVal} \cup {StrVal(s) : s \in SeqsUpTo(ArgChars, MaxArgLen)}

\* list(df.keys())
DictKeys(items) == [i \in 1..Len(items) |-> items[i].key]
\* sheet in df
InDict(key, items) == \E i \in 1..Len(items) : items[i].key = key
\* df[key]
DictGet(items, key) == items[CHOOSE i \in 1..Len(items) : items[i].key = key].table

LastSheet(items) == DictKeys(items)[Len(items)]
\* list(df.keys())[0]
FirstSheet(items) == DictKeys(items)[1]

\* sheet = int(args.sheet), or args.sheet itself when int() raises ValueError
ParseSheet(a) ==
    IF a.t = "none" THEN NoneVal
    ELSE IF IntParses(a.s) THEN IntVal(IntOf(a.s))
    ELSE a

\* df_cols_norm: the columns renamed, order and dtypes unchanged.
NormalizeTable(T) ==
    [i \in 1..Len(T) |-> [name |-> NormalizeName(T[i].label), numeric |-> T[i].numeric]]

\* select_dtypes(include=[np.number]) and select_dtypes(exclude=[np.number])
NumericCols(T) == SelectSeq(T, LAMBDA c : c.numeric)
NonNumericCols(T) == SelectSeq(T, LAMBDA c : ~c.numeric)

\* ------------------------------------------------------------ state
\* exit_status is "running" until the process ends, then "success" (exit
\* status 0: main() returned) or "failure" (exit status 1: uncaught exception).
VARIABLES pc, args_sheet, sheet, loaded, df, df_cols_norm, log, dirs, files,
          called, cat, freq_i, freq_out, write_failed, exit_status,
          cf_in, cf_out, cf_pc, nm_in, nm_once, nm_twice, nm_pc

main_vars == <<pc, args_sheet, sheet, loaded, df, df_cols_norm, log, dirs, files,
               called, cat, freq_i, freq_out, write_failed, exit_status>>
cf_vars == <<cf_in, cf_out, cf_pc>>
nm_vars == <<nm_in, nm_once, nm_twice, nm_pc>>
vars == <<main_vars, cf_vars, nm_vars>>

LogEntry(level, event, text, list) ==
    [level |-> level, event |-> event, text |-> text, list |-> list]

File(path) == [path |-> path, name |-> <<>>]
\* f"reports/{clean_col_name}_top20_value_counts.csv"
FreqFile(clean_col_name) ==
    [path |-> "reports/{}_top20_value_counts.csv", name |-> clean_col_name]

MainIdle ==
    /\ pc = "idle" /\ args_sheet = NoneVal /\ sheet = NoneVal
    /\ loaded = NoResult /\ df = NoResult /\ df_cols_norm = <<>>
    /\ log = <<>> /\ dirs = {} /\ files = {} /\ called = <<>>
    /\ cat = <<>> /\ freq_i = 0 /\ freq_out = <<>> /\ write_failed = {}
    /\ exit_status = "running"
CfIdle == cf_in = <<>> /\ cf_out = <<>> /\ cf_pc = "idle"
NmIdle == nm_in = NoneVal /\ nm_once = <<>> /\ nm_twice = <<>> /\ nm_pc = "idle"

\* ------------------------------------------------------------ main()
Init ==
    /\ pc = "start"
    /\ args_sheet \in ArgSheets
    /\ sheet = NoneVal
    /\ loaded = NoResult /\ df = NoResult /\ df_cols_norm = <<>>
    /\ log = <<>> /\ dirs = {} /\ files = {} /\ called = <<>>
    /\ cat = <<>> /\ freq_i = 0 /\ freq_out = <<>> /\ write_failed = {}
    /\ exit_status = "running"
    /\ CfIdle /\ NmIdle

\* Lines 42-58: logger, arguments, output directories, the sheet selector.
ParseArgs ==
    /\ pc = "start"
    /\ dirs' = {"reports", "reports/figures", "data/interim"}
    /\ sheet' = ParseSheet(args_sheet)
    /\ log' = Append(log, LogEntry("info", "reading", <<>>, <<>>))
    /\ pc' = "read"
    /\ UNCHANGED <<args_sheet, loaded, df, df_cols_norm, files, called, cat,
                   freq_i, freq_out, write_failed, exit_status, cf_vars, nm_vars>>

\* Line 59: df = read_any(...), an external loader.
ReadAny ==
    /\ pc = "read"
    /\ \E r \in LoaderResults : loaded' = r /\ df' = r
    /\ pc' = "resolve"
    /\ UNCHANGED <<args_sheet, sheet, df_cols_norm, log, dirs, files, called, cat,
                   freq_i, freq_out, write_failed, exit_status, cf_vars, nm_vars>>

\* Line 62 false: the loader returned one table.
ResolveSingle ==
    /\ pc = "resolve"
    /\ df.kind = "table"
    /\ pc' = "normalize"
    /\ UNCHANGED <<args_sheet, sheet, loaded, df, df_cols_norm, log, dirs, files,
                   called, cat, freq_i, freq_out, write_failed, exit_status,
                   cf_vars, nm_vars>>

\* Lines 63-67: a mapping and no selector: the first sheet, with a warning.
ResolveFirst ==
    /\ pc = "resolve"
    /\ df.kind = "dict" /\ sheet.t = "none" /\ df.items # <<>>
    /\ log' = Append(log, LogEntry("warning", "first_sheet",
                                   Str(FirstSheet(df.items)), <<>>))
    /\ df' = TableResult(DictGet(df.items, FirstSheet(df.items)))
    /\ pc' = "normalize"
    /\ UNCHANGED <<args_sheet, sheet, loaded, df_cols_norm, dirs, files, called,
                   cat, freq_i, freq_out, write_failed, exit_status, cf_vars, nm_vars>>

\* Line 65 on an empty mapping: list(df.keys())[0] raises IndexError.
ResolveEmpty ==
    /\ pc = "resolve"
    /\ df.kind = "dict" /\ sheet.t = "none" /\ df.items = <<>>
    /\ pc' = "done"
    /\ exit_status' = "failure"
    /\ UNCHANGED <<args_sheet, sheet, loaded, df, df_cols_norm, log, dirs, files,
                   called, cat, freq_i, freq_out, write_failed, cf_vars, nm_vars>>

\* Lines 70-71: the selector is a key of the mapping.
ResolveSelected ==
    /\ pc = "resolve"
    /\ df.kind = "dict" /\ sheet.t # "none" /\ InDict(sheet, df.items)
    /\ df' = TableResult(DictGet(df.items, sheet))
    /\ pc' = "normalize"
    /\ UNCHANGED <<args_sheet, sheet, loaded, df_cols_norm, log, dirs, files, called,
                   cat, freq_i, freq_out, write_failed, exit_status, cf_vars, nm_vars>>

ResolveNotFoundFallback ==
    /\ pc = "resolve"
    /\ df.kind = "dict" /\ sheet.t # "none" /\ ~InDict(sheet, df.items)
    /\ log' = Append(log, LogEntry("error", "sheet_not_found", Str(sheet), <<>>))
    /\ df' = TableResult(IF df.items = <<>> THEN <<>>
                         ELSE DictGet(df.items, FirstSheet(df.items)))
    /\ pc' = "normalize"
    /\ UNCHANGED <<args_sheet, sheet, loaded, df_cols_norm, dirs, files, called,
                   cat, freq_i, freq_out, write_failed, exit_status, cf_vars, nm_vars>>

\* Lines 72-74: the selector is no key: an error is logged and main() returns,
\* which ends the process the way a completed run does (exit status 0).
ResolveNotFound ==
    /\ pc = "resolve"
    /\ df.kind = "dict" /\ sheet.t # "none" /\ ~InDict(sheet, df.items)
    /\ log' = Append(log, LogEntry("error", "sheet_not_found", Str(sheet),
                                   [i \in 1..Len(df.items) |-> Repr(DictKeys(df.items)[i])]))
    /\ pc' = "done"
    /\ exit_status' = "success"
    /\ UNCHANGED <<args_sheet, sheet, loaded, df, df_cols_norm, dirs, files, called,
                   cat, freq_i, freq_out, write_failed, cf_vars, nm_vars>>

\* Lines 77-79: the copy with normalized column names, saved as the interim snapshot.
NormalizeColumns ==
    /\ pc = "normalize"
    /\ df_cols_norm' = NormalizeTable(df.table)
    /\ files' = files \cup {File("data/interim/sample_head.csv")}
    /\ pc' = "overview"
    /\ UNCHANGED <<args_sheet, sheet, loaded, df, log, dirs, called, cat, freq_i,
                   freq_out, write_failed, exit_status, cf_vars, nm_vars>>

\* Lines 82-84: data_overview and its two log lines.
Overview ==
    /\ pc = "overview"
    /\ log' = log \o <<LogEntry("info", "dimensions", <<>>, <<>>),
                        LogEntry("info", "first_columns", <<>>, <<>>)>>
    /\ pc' = "dictionary"
    /\ UNCHANGED <<args_sheet, sheet, loaded, df, df_cols_norm, dirs, files, called,
                   cat, freq_i, freq_out, write_failed, exit_status, cf_vars, nm_vars>>

\* Lines 87-88: data_dictionary, saved as reports/data_dictionary.csv.
DataDictionary ==
    /\ pc = "dictionary"
    /\ files' = files \cup {File("reports/data_dictionary.csv")}
    /\ pc' = "dictionary_debug"
    /\ UNCHANGED <<args_sheet, sheet, loaded, df, df_cols_norm, log, dirs, called, cat,
                   freq_i, freq_out, write_failed, exit_status, cf_vars, nm_vars>>

\* Line 89: the debugging copy of the dictionary.
DebugDictionary ==
    /\ pc = "dictionary_debug"
    /\ files' = files \cup {File("data/interim/_data_dictionary_debug.csv")}
    /\ pc' = "flags"
    /\ UNCHANGED <<args_sheet, sheet, loaded, df, df_cols_norm, log, dirs, called, cat,
                   freq_i, freq_out, write_failed, exit_status, cf_vars, nm_vars>>

\* Lines 92-98: quality_flags, saved as reports/quality_flags.json, and two log lines.
QualityFlags ==
    /\ pc = "flags"
    /\ files' = files \cup {File("reports/quality_flags.json")}
    /\ log' = log \o <<LogEntry("info", "flags", <<>>, <<>>),
                        LogEntry("info", "plots", <<>>, <<>>)>>
    /\ pc' = "plot_missing_bar"
    /\ UNCHANGED <<args_sheet, sheet, loaded, df, df_cols_norm, dirs, called, cat,
                   freq_i, freq_out, write_failed, exit_status, cf_vars, nm_vars>>

\* Line 99: plot_missing_bar is called, whatever the columns of the table are.
PlotMissingBar ==
    /\ pc = "plot_missing_bar"
    /\ called' = Append(called, "plot_missing_bar")
    /\ pc' = "plot_histograms"
    /\ UNCHANGED <<args_sheet, sheet, loaded, df, df_cols_norm, log, dirs, files, cat,
                   freq_i, freq_out, write_failed, exit_status, cf_vars, nm_vars>>

\* Line 100: plot_histograms is called, whatever the columns of the table are.
PlotHistograms ==
    /\ pc = "plot_histograms"
    /\ called' = Append(called, "plot_histograms")
    /\ pc' = "plot_boxplots"
    /\ UNCHANGED <<args_sheet, sheet, loaded, df, df_cols_norm, log, dirs, files, cat,
                   freq_i, freq_out, write_failed, exit_status, cf_vars, nm_vars>>

\* Line 101: plot_boxplots is called, whatever the columns of the table are.
PlotBoxplots ==
    /\ pc = "plot_boxplots"
    /\ called' = Append(called, "plot_boxplots")
    /\ pc' = "plot_correlation"
    /\ UNCHANGED <<args_sheet, sheet, loaded, df, df_cols_norm, log, dirs, files, cat,
                   freq_i, freq_out, write_failed, exit_status, cf_vars, nm_vars>>

\* Line 102: plot_correlation is called, whatever the columns of the table are.
PlotCorrelation ==
    /\ pc = "plot_correlation"
    /\ called' = Append(called, "plot_correlation")
    /\ pc' = "numeric_summary"
    /\ UNCHANGED <<args_sheet, sheet, loaded, df, df_cols_norm, log, dirs, files, cat,
                   freq_i, freq_out, write_failed, exit_status, cf_vars, nm_vars>>

\* Lines 106-112: numeric_summary.csv when there is a numeric column; then the
\* non-numeric columns the loop goes over.
NumericSummary ==
    /\ pc = "numeric_summary"
    /\ files' = IF Len(NumericCols(df_cols_norm)) > 0
                 THEN files \cup {File("reports/numeric_summary.csv")}
                 ELSE files
    /\ cat' = [i \in 1..Len(NonNumericCols(df_cols_norm)) |->
                  NonNumericCols(df_cols_norm)[i].name]
    /\ freq_i' = 1
    /\ pc' = "freq"
    /\ UNCHANGED <<args_sheet, sheet, loaded, df, df_cols_norm, log, dirs, called,
                   freq_out, write_failed, exit_status, cf_vars, nm_vars>>

\* Lines 113-119: one iteration of the loop whose to_csv succeeds.
FreqWrite ==
    /\ pc = "freq"
    /\ freq_i <= Len(cat)
    /\ files' = files \cup {FreqFile(clean_filename(cat[freq_i]))}
    /\ freq_out' = Append(freq_out, cat[freq_i])
    /\ freq_i' = freq_i + 1
    /\ UNCHANGED <<pc, args_sheet, sheet, loaded, df, df_cols_norm, log, dirs, called,
                   cat, write_failed, exit_status, cf_vars, nm_vars>>

FreqWriteAborts ==
    /\ pc = "freq"
    /\ freq_i <= Len(cat)
    /\ write_failed' = write_failed \cup {freq_i}
    /\ pc' = "done"
    /\ exit_status' = "failure"
    /\ UNCHANGED <<args_sheet, sheet, loaded, df, df_cols_norm, log, dirs, files,
                   called, cat, freq_i, freq_out, cf_vars, nm_vars>>

\* Lines 113-121: one iteration whose to_csv raises: the exception is caught,
\* a warning naming the column is logged and the loop goes on.
FreqWriteFails ==
    /\ pc = "freq"
    /\ freq_i <= Len(cat)
    /\ log' = Append(log, LogEntry("warning", "freq_write_failed", cat[freq_i], <<>>))
    /\ write_failed' = write_failed \cup {freq_i}
    /\ freq_i' = freq_i + 1
    /\ UNCHANGED <<pc, args_sheet, sheet, loaded, df, df_cols_norm, dirs, files,
                   called, cat, freq_out, exit_status, cf_vars, nm_vars>>

\* Line 123: the loop is over; main() returns and the process exits with 0.
Finish ==
    /\ pc = "freq"
    /\ freq_i > Len(cat)
    /\ log' = Append(log, LogEntry("info", "done", <<>>, <<>>))
    /\ pc' = "done"
    /\ exit_status' = "success"
    /\ UNCHANGED <<args_sheet, sheet, loaded, df, df_cols_norm, dirs, files, called,
                   cat, freq_i, freq_out, write_failed, cf_vars, nm_vars>>

\* The steps whose external call (the loader, an eda function, a renderer, a
\* file write) is made outside any try block.
RaisingSteps ==
    {"read", "normalize", "overview", "dictionary", "dictionary_debug", "flags",
     "plot_missing_bar", "plot_histograms", "plot_boxplots", "plot_correlation",
     "numeric_summary"}

\* Lines 125-126: an exception no try block catches leaves main(); the
\* interpreter prints the traceback and exits with status 1.
Raises ==
    /\ pc \in RaisingSteps
    /\ pc' = "done"
    /\ exit_status' = "failure"
    /\ UNCHANGED <<args_sheet, sheet, loaded, df, df_cols_norm, log, dirs, files,
                   called, cat, freq_i, freq_out, write_failed, cf_vars, nm_vars>>

Next ==
    \/ ParseArgs \/ ReadAny
    \/ ResolveSingle \/ ResolveFirst \/ ResolveEmpty \/ ResolveSelected \/ ResolveNotFound
    \/ NormalizeColumns \/ Overview \/ DataDictionary \/ DebugDictionary \/ QualityFlags
    \/ PlotMissingBar \/ PlotHistograms \/ PlotBoxplots \/ PlotCorrelation
    \/ NumericSummary \/ FreqWrite \/ FreqWriteFails \/ Finish
    \/ Raises

Spec == Init /\ [][Next]_vars

\* ------------------------------------------------------------ clean_filename alone
EdgeChars == {"a", "_", "/"}
FillChars == Forbidden \cup {"a", "_", "."}
\* The repeated part of an input: one character, or two of the edge characters.
FillUnits == [1..1 -> FillChars] \cup [1..2 -> EdgeChars]
\* Lengths of the repeated part: short ones and those around the length limit.
FillLens == (0..MaxShortRun) \cup ((CleanMaxLen - MaxNear)..(CleanMaxLen + MaxNear))
\* unit repeated up to length k
CycleFill(unit, k) == [i \in 1..k |-> unit[((i - 1) % Len(unit)) + 1]]

CleanInputs ==
    {head \o CycleFill(unit, k) \o tail :
        head \in SeqsUpTo(EdgeChars, MaxEdgeLen), tail \in SeqsUpTo(EdgeChars, MaxEdgeLen),
        unit \in FillUnits, k \in FillLens}

InitClean ==
    /\ MainIdle /\ NmIdle
    /\ cf_in \in CleanInputs
    /\ cf_out = <<>>
    /\ cf_pc = "call"

\* Lines 19-28: one call of clean_filename.
CleanFilenameCall ==
    /\ cf_pc = "call"
    /\ cf_out' = clean_filename(cf_in)
    /\ cf_pc' = "returned"
    /\ UNCHANGED <<cf_in, main_vars, nm_vars>>

NextClean == CleanFilenameCall

SpecClean == InitClean /\ [][NextClean]_vars

\* ------------------------------------------------------------ normalization alone
LabelChars == {" ", "\t", "a", "_"}
\* Column labels: any string, or an int, which str() formats.
Labels ==
    {StrVal(s) : s \in SeqsUpTo(LabelChars, MaxLabelLen)}
        \cup {IntVal(k) : k \in (0 - MaxIntLabel)..MaxIntLabel}

InitNorm ==
    /\ MainIdle /\ CfIdle
    /\ nm_in \in Labels
    /\ nm_once = <<>> /\ nm_twice = <<>>
    /\ nm_pc = "raw"

\* Line 78 on a column whose label is nm_in.
NormalizeOnce ==
    /\ nm_pc = "raw"
    /\ nm_once' = NormalizeName(nm_in)
    /\ nm_pc' = "once"
    /\ UNCHANGED <<nm_in, nm_twice, main_vars, cf_vars>>

\* Line 78 on a column whose label is the name line 78 produced.
NormalizeAgain ==
    /\ nm_pc = "once"
    /\ nm_twice' = NormalizeName(StrVal(nm_once))
    /\ nm_pc' = "twice"
    /\ UNCHANGED <<nm_in, nm_once, main_vars, cf_vars>>

NextNorm == NormalizeOnce \/ NormalizeAgain

SpecNorm == InitNorm /\ [][NextNorm]_vars

\* ------------------------------------------------------------ claims
\* The sheet resolver has run (the run may also have ended).
PastResolve == pc \notin {"idle", "start", "read", "resolve"}
\* The loader returned a mapping and the selector is none of its keys.
NotFoundCase ==
    /\ PastResolve
    /\ loaded.kind = "dict" /\ sheet.t # "none" /\ ~InDict(sheet, loaded.items)
\* The loader returned a non-empty mapping and no selector was given.
FirstCase ==
    /\ PastResolve
    /\ loaded.kind = "dict" /\ sheet.t = "none" /\ loaded.items # <<>>
InterimSnapshot == File("data/interim/sample_head.csv")
FreqFiles == {f \in files : f.path = FreqFile(<<>>).path}
HasLog(e) == \E i \in 1..Len(log) : log[i] = e

\* C1: when the selector is not a key of the loaded mapping, the run ends with
\* no artifact written (no snapshot, dictionary, flags, numeric summary or
\* frequency table, no renderer called) and its last diagnostic is an error
\* carrying the requested selector and the list of all available sheets.
C1_NotFoundWritesNothing ==
    NotFoundCase =>
        /\ pc = "done"
        /\ files = {} /\ called = <<>> /\ freq_out = <<>>
        /\ log # <<>>
        /\ log[Len(log)] =
              LogEntry("error", "sheet_not_found", Str(sheet),
                       [i \in 1..Len(loaded.items) |-> Repr(loaded.items[i].key)])

C1_Witness ==
    NotFoundCase /\ pc = "done" /\ Len(loaded.items) = 2 /\ sheet.t = "str"

\* C2: a run whose selector is not a key of the loaded mapping ends with a
\* failure status, not with the status of a completed run.
C2_NotFoundExitsNonZero ==
    (NotFoundCase /\ pc = "done") => exit_status # "success"

\* C3: with a non-empty mapping and no selector, the table every later stage
\* uses is the first entry of the mapping, and the warning naming that sheet
\* is logged before any later stage has run.
C3_FirstSheetUsed ==
    FirstCase =>
        /\ df = TableResult(loaded.items[1].table)
        /\ HasLog(LogEntry("warning", "first_sheet", Str(loaded.items[1].key), <<>>))
        /\ pc = "normalize" => (files = {} /\ called = <<>> /\ df_cols_norm = <<>>)
        /\ InterimSnapshot \in files =>
              df_cols_norm = NormalizeTable(loaded.items[1].table)
        /\ freq_i >= 1 =>
              cat = [i \in 1..Len(NonNumericCols(NormalizeTable(loaded.items[1].table))) |->
                        NonNumericCols(NormalizeTable(loaded.items[1].table))[i].name]

C3_Witness ==
    /\ FirstCase /\ pc = "done" /\ exit_status = "success"
    /\ Len(loaded.items) = 2
    /\ loaded.items[1].table # loaded.items[2].table
    /\ Len(freq_out) >= 1

\* The string given after --sheet is the name of key: the name itself for a
\* string key, the decimal index for an integer key.
ArgNames(a, key) == a.t = "str" /\ a.s = Str(key)

\* C4: when the --sheet argument names a key of the loaded mapping, whatever
\* characters the name consists of, the run goes on with that key's table and
\* does not take the sheet-not-found path.
C4_NamedSheetUsed ==
    (PastResolve /\ loaded.kind = "dict"
        /\ \E i \in 1..Len(loaded.items) : ArgNames(args_sheet, loaded.items[i].key))
    => /\ ~HasLog(LogEntry("error", "sheet_not_found", Str(sheet),
                           [i \in 1..Len(loaded.items) |-> Repr(loaded.items[i].key)]))
       /\ \E i \in 1..Len(loaded.items) :
             /\ ArgNames(args_sheet, loaded.items[i].key)
             /\ df = TableResult(loaded.items[i].table)

\* C5: the result of clean_filename has no forbidden character, at most 100
\* characters and no two consecutive underscores.
C5_CleanSafe ==
    cf_pc = "returned" =>
        /\ \A i \in 1..Len(cf_out) : cf_out[i] \notin {"/", "<", ">", ":", "\"", "|", "?", "*"}
        /\ Len(cf_out) <= 100
        /\ \A i \in 1..(Len(cf_out) - 1) : ~(cf_out[i] = "_" /\ cf_out[i + 1] = "_")

C5_Witness ==
    /\ cf_pc = "returned"
    /\ Len(cf_in) > 100
    /\ \E i \in 1..Len(cf_in) : cf_in[i] \in Forbidden
    /\ \E i \in 1..(Len(cf_in) - 1) : cf_in[i] \in Forbidden /\ cf_in[i + 1] = "_"
    /\ Len(cf_out) > 3

\* C6: once the frequency loop has started, a failed write never ends the run
\* with a failure: the dictionary and the flags are already written, every
\* column visited so far has either its warning or its frequency table, and a
\* finished run has visited every non-numeric column and completed normally.
C6_WriteFailureIsolated ==
    freq_i >= 1 =>
        /\ pc \in {"freq", "done"}
        /\ exit_status # "failure"
        /\ File("reports/data_dictionary.csv") \in files
        /\ File("reports/quality_flags.json") \in files
        /\ \A i \in 1..(freq_i - 1) :
              IF i \in write_failed
              THEN HasLog(LogEntry("warning", "freq_write_failed", cat[i], <<>>))
              ELSE FreqFile(clean_filename(cat[i])) \in files
        /\ Len(freq_out) = (freq_i - 1) - Cardinality(write_failed)
        /\ pc = "done" => (freq_i = Len(cat) + 1 /\ exit_status = "success")

C6_Witness ==
    /\ pc = "done" /\ exit_status = "success"
    /\ 1 \in write_failed /\ 2 \notin write_failed
    /\ Len(cat) = 2 /\ Len(freq_out) = 1

\* C7: normalizing a normalized column name returns it unchanged.
C7_NormalizeIdempotent == nm_pc = "twice" => nm_twice = nm_once

C7_Witness ==
    /\ nm_pc = "twice"
    /\ nm_once # Str(nm_in)
    /\ \E i \in 1..Len(nm_once) : nm_once[i] = "_"
    /\ \E i \in 1..Len(nm_in.s) : nm_in.s[i] = "\t"

\* The stated algorithm: replace, collapse, trim, and only then cut to 97
\* characters plus the ellipsis when the result is longer than 100.
StatedOrder(s) ==
    LET t == StripSet(CollapseUnderscores(
                 [i \in 1..Len(s) |->
                     IF s[i] \in {"/", "<", ">", ":", "\"", "|", "?", "*"} THEN "_" ELSE s[i]]),
                 {"_"})
    IN  IF Len(t) > 100 THEN SubSeq(t, 1, 97) \o <<".", ".", ".">> ELSE t

\* C8: clean_filename returns what the stated algorithm returns in its stated
\* order (replace, collapse, trim, then truncate).
C8_StatedOrder == cf_pc = "returned" => cf_out = StatedOrder(cf_in)

\* C9: over a normalized table with no numeric column, the histogram, boxplot
\* and correlation renderers are never called.
C9_RenderersSkipped ==
    (InterimSnapshot \in files /\ Len(NumericCols(df_cols_norm)) = 0) =>
        \A i \in 1..Len(called) :
            called[i] \notin {"plot_histograms", "plot_boxplots", "plot_correlation"}

\* C10: in a completed run where no write failed, different non-numeric
\* columns were written to different paths, so there are as many frequency
\* files as non-numeric columns.
C10_OneFilePerColumn ==
    (pc = "done" /\ exit_status = "success" /\ freq_i >= 1 /\ write_failed = {}) =>
        /\ \A i, j \in 1..Len(cat) :
              cat[i] # cat[j] => clean_filename(cat[i]) # clean_filename(cat[j])
        /\ Cardinality(FreqFiles) = Len(cat)

====
